---- MODULE Spec2Model ----
(***************************************************************************)
(* Model of double_slit_simulation.py: DoubleslitSimulator (Fraunhofer     *)
(* single / double slit intensity, normalisation, grid construction) and   *)
(* InterferenceAnalyzer (held experimental / theoretical data, comparison  *)
(* with theory).                                                           *)
(*                                                                         *)
(* Numbers.  numpy float64 values are modelled as fixed-point integers:    *)
(* a dimensionless real r (angle in radians, sine, intensity, correlation) *)
(* is the integer r * Scale, and every arithmetic operation rounds towards *)
(* zero to that resolution, the way a float operation rounds to its        *)
(* precision.  A result below one unit becomes 0 (underflow).  0/0 gives   *)
(* NaN, which is a reserved value outside the representable range and is   *)
(* propagated by the operations that read it.                              *)
(* Lengths in the slit plane (wavelength, slit_width, slit_separation) are *)
(* integers in nanometres; lengths on the screen side (screen_distance,    *)
(* screen_width, y positions) are integers in micrometres.  The code only  *)
(* ever combines them through the ratios a/lambda, d/lambda and y/D.       *)
(***************************************************************************)
EXTENDS Integers, Sequences, FiniteSets, TLC

\* ---------------------------------------------------------------- numbers

\* Fixed-point image of 1.0.
Scale == 1000

\* np.pi in fixed point.
Pi == 3142

\* The float NaN (result of 0/0): a value outside every representable range.
NaN == -999999999

\* The substitute / threshold 1e-10 of the beta guard: the smallest magnitudes
\* of the fixed-point grid (|beta| < BetaEps covers beta = 0 and beta = +-1 unit).
BetaEps == 2

Abs(x) == IF x < 0 THEN -x ELSE x

Sign(x) == IF x < 0 THEN -1 ELSE IF x > 0 THEN 1 ELSE 0

\* a * b / c for a, b >= 0 and c > 0, rounded down, without forming a * b.
MulDivPos(a, b, c) == (a \div c) * b + ((a % c) * b) \div c

\* a * b / c rounded towards zero (sign-symmetric, like float rounding).
MulDiv(a, b, c) == Sign(a) * Sign(b) * Sign(c) * MulDivPos(Abs(a), Abs(b), Abs(c))

\* Float division a / b of plain numbers, b # 0.
FDiv(a, b) == MulDiv(a, 1, b)

\* Float product of two fixed-point numbers.
FMul(a, b) == MulDiv(a, b, Scale)

\* The integer square root of a number v < (214 * 216)^2, found in the block of
\* 216 candidates that holds it.
SqrtOf(v) ==
    CHOOSE r \in UNION { (c * 216)..(c * 216 + 215) :
                            c \in { b \in 0..213 : v < ((b + 1) * 216) * ((b + 1) * 216)
                                                   /\ (b * 216) * (b * 216) <= v } } :
        r * r <= v /\ v < (r + 1) * (r + 1)

\* np.sqrt of a non-negative integer, rounded down.
ISqrt(n) == CHOOSE r \in { SqrtOf(v) : v \in {n} } : TRUE

\* No sine exceeds 1.
AtMostOne(v) == IF v > Scale THEN Scale ELSE v

\* x - x^3/3! + x^5/5! - x^7/7! in Horner form, x2 being the square of x.
SinSeries(x, x2) ==
    FMul(x, Scale - FMul(FDiv(x2, 6),
                         Scale - FMul(FDiv(x2, 20), Scale - FDiv(x2, 42))))

\* np.sin on [0, pi/2].
SinQ(x) == AtMostOne(SinSeries(x, FMul(x, x)))

\* The first-quadrant angle with the sine magnitude of r, 0 <= r < 2 pi.
QuadrantArg(r) ==
    IF r <= Pi \div 2 THEN r
    ELSE IF r <= Pi THEN Pi - r
    ELSE IF r <= Pi + Pi \div 2 THEN r - Pi
    ELSE 2 * Pi - r

\* The sign of the sine of r, 0 <= r < 2 pi.
QuadrantSign(r) == IF r <= Pi THEN 1 ELSE -1

\* np.sin for x >= 0: reduction to the first quadrant.
SinPos(x) == QuadrantSign(x % (2 * Pi)) * SinQ(QuadrantArg(x % (2 * Pi)))

\* np.sin (odd; NaN in, NaN out).
Sin(x) == IF x = NaN THEN NaN ELSE Sign(x) * SinPos(Abs(x))

\* np.cos (even; NaN in, NaN out).
Cos(x) == IF x = NaN THEN NaN ELSE SinPos(Abs(x) + Pi \div 2)

\* arctan on [0, 1]: t / (1 + 0.28 t^2).
ArcTanU(t) == FDiv(t * Scale, Scale + FMul(280, FMul(t, t)))

\* arctan for t >= 0.
ArcTanPos(t) ==
    IF t <= Scale THEN ArcTanU(t)
    ELSE Pi \div 2 - ArcTanU(FDiv(Scale * Scale, t))

\* np.arctan (odd).
ArcTan(t) == Sign(t) * ArcTanPos(Abs(t))

\* The square x ** 2 of a fixed-point number (NaN in, NaN out).
Square(x) == IF x = NaN THEN NaN ELSE FMul(x, x)

RECURSIVE SeqMax(_)
SeqMax(s) ==
    IF Len(s) = 1 THEN s[1]
    ELSE LET m == SeqMax(Tail(s))
         IN IF s[1] = NaN \/ m = NaN THEN NaN
            ELSE IF s[1] >= m THEN s[1] ELSE m

RECURSIVE SeqSum(_)
SeqSum(s) == IF s = <<>> THEN 0 ELSE s[1] + SeqSum(Tail(s))

HasNaN(s) == \E i \in 1..Len(s) : s[i] = NaN

\* Float product a * b (NaN in, NaN out).
Times(a, b) == IF a = NaN \/ b = NaN THEN NaN ELSE FMul(a, b)

\* Float quotient x / m of two fixed-point numbers.  A zero divisor is only
\* ever met with x = 0 (m is the maximum of non-negative values): 0/0 = NaN.
Quotient(x, m) ==
    IF x = NaN \/ m = NaN \/ m = 0 THEN NaN ELSE MulDiv(x, Scale, m)

\* ------------------------------------------------------- bounds and inputs

\* Largest resolution (number of grid points) requested from the simulator.
MaxResolution == 5

\* Largest number of pixels in the centre line of a loaded image.
MaxPixels == 3

\* Default arguments of DoubleslitSimulator.__init__ (nm, nm, nm, um).
DefaultWavelength == 650
DefaultSlitWidth == 50000
DefaultSlitSeparation == 200000
DefaultScreenDistance == 1000000

\* Default screen_width of simulate_experiment and compare_with_theory (um).
DefaultScreenWidth == 10000

Setup(w, a, d, D) ==
    [wavelength |-> w, slit_width |-> a, slit_separation |-> d, screen_distance |-> D]

DefaultSetup ==
    Setup(DefaultWavelength, DefaultSlitWidth, DefaultSlitSeparation, DefaultScreenDistance)

\* Constructor arguments with every value positive.
ValidSetups ==
    { DefaultSetup,
      Setup(2 * DefaultWavelength, DefaultSlitWidth, DefaultSlitSeparation, DefaultScreenDistance),
      Setup(DefaultWavelength, 2000, 8000, DefaultScreenDistance) }

\* Constructor arguments with one non-positive value.
InvalidSetups ==
    { Setup(0, DefaultSlitWidth, DefaultSlitSeparation, DefaultScreenDistance),
      Setup(-DefaultWavelength, DefaultSlitWidth, DefaultSlitSeparation, DefaultScreenDistance),
      Setup(DefaultWavelength, 0, DefaultSlitSeparation, DefaultScreenDistance),
      Setup(DefaultWavelength, DefaultSlitWidth, -DefaultSlitSeparation, DefaultScreenDistance),
      Setup(DefaultWavelength, DefaultSlitWidth, DefaultSlitSeparation, 0),
      Setup(DefaultWavelength, DefaultSlitWidth, DefaultSlitSeparation, -DefaultScreenDistance) }

IsValidSetup(s) ==
    s.wavelength > 0 /\ s.slit_width > 0 /\ s.slit_separation > 0 /\ s.screen_distance > 0

\* screen_width arguments (um): 0, 1 cm (the default), and 40 cm, wide enough
\* for the sinc^2 envelope of the default slits to underflow to 0 at the
\* resolution of the model (float64 underflows the same way, at far more
\* extreme ratios such as wavelength = 1e-200).
ScreenWidths == {0, DefaultScreenWidth, 40 * DefaultScreenWidth}

\* resolution arguments.
Resolutions == -1..MaxResolution

\* --------------------------------------------------------------- outcomes

NoError == "none"
ErrZeroDivision == "ZeroDivisionError: float division by zero"
ErrNegativeSamples == "ValueError: Number of samples must be non-negative"
ErrEmptyMax == "ValueError: zero-size array to reduction operation maximum"
ErrNoData == "ValueError: No experimental data loaded"
ErrShape == "ValueError: array dimensions must match"
ErrFileNotFound == "FileNotFoundError: Could not load image"

\* The value None of an analyzer field, and an array held in one.
None == [none |-> TRUE, arr |-> <<>>]
Some(a) == [none |-> FALSE, arr |-> a]

\* ------------------------------------------------------ DoubleslitSimulator

\* theta = np.arctan(y / screen_distance).  A zero distance gives y / 0 =
\* +-inf (arctan +-pi/2) and 0 / 0 = NaN.
Theta(y, D) ==
    IF D = 0 THEN (IF y = 0 THEN NaN ELSE Sign(y) * (Pi \div 2))
    ELSE ArcTan(MulDiv(y, Scale, D))

\* (np.pi * width * np.sin(theta)) / wavelength, for beta and for delta.
Phase(width, theta, wavelength) ==
    IF theta = NaN THEN NaN
    ELSE FDiv(FMul(Pi * width, Sin(theta)), wavelength)

\* The guard substituting only a beta that is exactly zero.
BetaSafeZeroOnly(beta) ==
    IF beta = NaN THEN NaN
    ELSE IF beta = 0 THEN BetaEps ELSE beta

\* The guard written without np.abs: every beta below 1e-10 is substituted.
BetaSafeNoAbs(beta) ==
    IF beta = NaN THEN NaN
    ELSE IF beta < BetaEps THEN BetaEps ELSE beta

\* beta_safe = np.where(np.abs(beta) < 1e-10, 1e-10, beta).
BetaSafe(beta) ==
    IF beta = NaN THEN NaN
    ELSE IF Abs(beta) < BetaEps THEN BetaEps ELSE beta

\* (np.sin(beta_safe) / beta_safe) ** 2.
SincSquared(bs) ==
    IF bs = NaN THEN NaN ELSE Square(MulDiv(Sin(bs), Scale, bs))

\* The single-slit envelope at the angle theta: beta, beta_safe, sinc^2.
single_slit_term(s, theta) ==
    SincSquared(BetaSafe(Phase(s.slit_width, theta, s.wavelength)))

\* The interference term with the sine in place of the cosine: dark where the
\* two paths are equal.
interference_term_sine(s, theta) ==
    Square(Sin(Phase(s.slit_separation, theta, s.wavelength)))

\* np.cos(delta) ** 2 at the angle theta, delta the phase between the slits.
interference_term(s, theta) ==
    Square(Cos(Phase(s.slit_separation, theta, s.wavelength)))

\* single_slit_intensity at one position.
SingleSlitAt(s, y) == single_slit_term(s, Theta(y, s.screen_distance))

\* The intensity of two coherent sources, 4 cos^2(delta) times the envelope.
DoubleSlitAtAngleCoherent(s, theta) ==
    Times(single_slit_term(s, theta), 4 * interference_term(s, theta))

\* single_slit_term * interference_term at the angle theta.
DoubleSlitAtAngle(s, theta) ==
    Times(single_slit_term(s, theta), interference_term(s, theta))

\* double_slit_intensity at one position.
DoubleSlitAt(s, y) == DoubleSlitAtAngle(s, Theta(y, s.screen_distance))

single_slit_intensity(s, y_positions) ==
    [i \in 1..Len(y_positions) |-> SingleSlitAt(s, y_positions[i])]

double_slit_intensity(s, y_positions) ==
    [i \in 1..Len(y_positions) |-> DoubleSlitAt(s, y_positions[i])]

\* intensity / np.max(intensity).
Normalize(intensity) ==
    LET m == SeqMax(intensity)
    IN [i \in 1..Len(intensity) |-> Quotient(intensity[i], m)]

\* return intensity / np.max(intensity): np.max raises on an empty array.
NormalizedOrRaised(intensity) ==
    IF Len(intensity) = 0
    THEN [err |-> ErrEmptyMax, intensity |-> <<>>]
    ELSE [err |-> NoError, intensity |-> Normalize(intensity)]

\* fraunhofer_diffraction.
fraunhofer_diffraction(s, y_positions, double_slit) ==
    NormalizedOrRaised(IF double_slit THEN double_slit_intensity(s, y_positions)
                       ELSE single_slit_intensity(s, y_positions))

\* np.linspace called with endpoint=False: the step is (stop - start) / num and
\* the last point is not set to stop.
LinspaceNoEndpoint(start, stop, num) ==
    IF num = 1 THEN <<start>>
    ELSE LET step == FDiv(stop - start, num)
         IN [i \in 1..num |-> (i - 1) * step + start]

\* np.linspace(start, stop, num), num >= 0: y[i] = i * step + start with
\* step = (stop - start) / (num - 1), the last point set to stop.
Linspace(start, stop, num) ==
    IF num = 1 THEN <<start>>
    ELSE LET step == FDiv(stop - start, num - 1)
         IN [i \in 1..num |-> IF i = num THEN stop ELSE (i - 1) * step + start]

\* return y_positions, intensity: what fraunhofer_diffraction raises passes
\* through simulate_experiment.
ReturnedOrRaised(y_positions, r) ==
    IF r.err # NoError
    THEN [err |-> r.err, y_positions |-> <<>>, intensity |-> <<>>]
    ELSE [err |-> NoError, y_positions |-> y_positions, intensity |-> r.intensity]

\* The intensity pattern on the grid y_positions.
SimulateOn(s, y_positions, double_slit) ==
    ReturnedOrRaised(y_positions, fraunhofer_diffraction(s, y_positions, double_slit))

\* simulate_experiment: np.linspace raises on a negative number of samples.
simulate_experiment(s, screen_width, resolution, double_slit) ==
    IF resolution < 0
    THEN [err |-> ErrNegativeSamples, y_positions |-> <<>>, intensity |-> <<>>]
    ELSE SimulateOn(s, Linspace(FDiv(-screen_width, 2), FDiv(screen_width, 2), resolution),
                    double_slit)

\* ----------------------------------------------------------------- state

VARIABLES
    sim,                \* the simulator last constructed: its four parameters
    experimental_data,  \* InterferenceAnalyzer.experimental_data
    theoretical_data,   \* InterferenceAnalyzer.theoretical_data
    ret                 \* the last call: its arguments and what it returned or raised

vars == <<sim, experimental_data, theoretical_data, ret>>

\* The outcome record of a call; each call fills in the fields it produces.
Outcome(op) ==
    [op |-> op, err |-> NoError, setup |-> DefaultSetup,
     screen_width |-> 0, resolution |-> 0, double_slit |-> TRUE,
     y_positions |-> <<>>, intensity |-> <<>>,
     experimental |-> None, theoretical |-> None,
     correlation |-> 0, rms_error |-> 0,
     peaks |-> <<>>, minima |-> <<>>,
     theoretical_peaks |-> <<>>, theoretical_minima |-> <<>>]

\* sim = DoubleslitSimulator(); analyzer = InterferenceAnalyzer().
Init ==
    /\ sim = DefaultSetup
    /\ experimental_data = None
    /\ theoretical_data = None
    /\ ret = Outcome("init")

\* A constructor storing slit_width and slit_separation in each other's field.
NewSimulatorSwapped(s) ==
    /\ ret' = [Outcome("new_simulator") EXCEPT !.setup = s]
    /\ sim' = [s EXCEPT !.slit_width = s.slit_separation, !.slit_separation = s.slit_width]
    /\ UNCHANGED <<experimental_data, theoretical_data>>

\* DoubleslitSimulator(wavelength, slit_width, slit_separation, screen_distance):
\* WaveFunction.__init__ divides 3e8 and 2 pi by the wavelength.
NewSimulator(s) ==
    /\ IF s.wavelength = 0
       THEN /\ ret' = [Outcome("new_simulator") EXCEPT !.err = ErrZeroDivision, !.setup = s]
            /\ sim' = sim
       ELSE /\ ret' = [Outcome("new_simulator") EXCEPT !.setup = s]
            /\ sim' = s
    /\ UNCHANGED <<experimental_data, theoretical_data>>

\* sim.simulate_experiment(screen_width, resolution, double_slit).
SimulateExperiment(screen_width, resolution, double_slit) ==
    \E r \in {simulate_experiment(sim, screen_width, resolution, double_slit)} :
       /\ ret' = [Outcome("simulate_experiment") EXCEPT
                     !.err = r.err, !.setup = sim,
                     !.screen_width = screen_width, !.resolution = resolution,
                     !.double_slit = double_slit,
                     !.y_positions = r.y_positions, !.intensity = r.intensity]
       /\ UNCHANGED <<sim, experimental_data, theoretical_data>>

\* -------------------------------------------------------- InterferenceAnalyzer

\* Grey levels of the pixels of a loaded image.
PixelValues == {0, 255}

\* gray[height // 2, :] of a readable image: at least one pixel wide.
CenterLines == UNION { [1..n -> PixelValues] : n \in 1..MaxPixels }

\* center_line.astype(float) / 255.0.
LineIntensity(center_line) ==
    [i \in 1..Len(center_line) |-> MulDiv(center_line[i], Scale, 255)]

\* A failing load_image that drops the sequence loaded before.
LoadImageFailsClearing ==
    /\ ret' = [Outcome("load_image") EXCEPT !.err = ErrFileNotFound]
    /\ experimental_data' = None
    /\ UNCHANGED <<sim, theoretical_data>>

\* analyzer.load_image(path) where cv2.imread returns None: raises, stores nothing.
LoadImageFails ==
    /\ ret' = [Outcome("load_image") EXCEPT !.err = ErrFileNotFound]
    /\ UNCHANGED <<sim, experimental_data, theoretical_data>>

\* load_image storing the line in theoretical_data.
LoadImageIntoTheory(center_line) ==
    /\ theoretical_data' = Some(LineIntensity(center_line))
    /\ ret' = [Outcome("load_image") EXCEPT !.intensity = LineIntensity(center_line)]
    /\ UNCHANGED <<sim, experimental_data>>

\* analyzer.load_image(path) of a readable image with this centre line.
LoadImage(center_line) ==
    LET intensity == LineIntensity(center_line)
    IN /\ experimental_data' = Some(intensity)
       /\ ret' = [Outcome("load_image") EXCEPT !.intensity = intensity]
       /\ UNCHANGED <<sim, theoretical_data>>

\* Arrays a caller assigns to analyzer.experimental_data directly: an empty
\* array, or the pattern just simulated, sim.simulate_experiment(resolution=n)[1].
AssignedArrays ==
    {<<>>} \cup
    { simulate_experiment(sim, DefaultScreenWidth, n, TRUE).intensity :
        n \in 1..MaxResolution }

\* analyzer.experimental_data = data.
AssignExperimentalData(data) ==
    /\ experimental_data' = Some(data)
    /\ ret' = [Outcome("assign") EXCEPT !.intensity = data]
    /\ UNCHANGED <<sim, theoretical_data>>

\* N * sum(x * y) - sum(x) * sum(y): the covariance of np.cov times N (N - 1),
\* exact in the integers.
CoMoment(x, y) ==
    Len(x) * SeqSum([i \in 1..Len(x) |-> x[i] * y[i]]) - SeqSum(x) * SeqSum(y)

\* np.clip(c, -1, 1).
Clip(c) == IF c > Scale THEN Scale ELSE IF c < -Scale THEN -Scale ELSE c

\* np.corrcoef(x, y)[0, 1] for arrays of one length: the covariance divided by
\* both standard deviations (the factor N (N - 1) cancels), clipped to [-1, 1];
\* a zero standard deviation gives 0/0 = NaN.
Corrcoef(x, y) ==
    IF HasNaN(x) \/ HasNaN(y) THEN NaN
    ELSE LET sx == ISqrt(CoMoment(x, x))
             sy == ISqrt(CoMoment(y, y))
         IN IF sx = 0 \/ sy = 0 THEN NaN
            ELSE Clip(FDiv(MulDiv(CoMoment(x, y), Scale, sx), sy))

\* np.sqrt(np.mean((x - y) ** 2)) for arrays of one non-zero length.
RmsError(x, y) ==
    IF HasNaN(x) \/ HasNaN(y) THEN NaN
    ELSE ISqrt(SeqSum([i \in 1..Len(x) |-> (x[i] - y[i]) * (x[i] - y[i])]) \div Len(x))

\* The no-data check left out.
HasNoDataNever(data) == FALSE

\* self.experimental_data is None.
HasNoData(data) == data.none

\* A resolution one more than the number of experimental samples.
ComparisonResolutionOffByOne(data) == Len(data.arr) + 1

\* resolution = len(self.experimental_data).
ComparisonResolution(data) == Len(data.arr)

\* ------------------------------------------------- find_peaks_and_minima

\* height=0.1 of the peak search and height=-0.9 of the search on the
\* negated signal, in fixed point; distance=10 of both.
PeakHeight == 100
MinimaHeight == -900
PeakDistance == 10

\* Float comparisons: every comparison with NaN is false.
Lt(a, b) == a # NaN /\ b # NaN /\ a < b
Eq(a, b) == a # NaN /\ b # NaN /\ a = b

\* The signal handed to the second search without the sign change.
NotNegated(x) == x

\* -intensity.
Negated(x) == [i \in 1..Len(x) |-> IF x[i] = NaN THEN NaN ELSE -x[i]]

\* scipy _local_maxima_1d, the look-ahead: the next sample unequal to x[i],
\* or the last sample.  (Indices are 1-based here: i runs from 2 to Len(x) - 1.)
RECURSIVE LookAhead(_, _, _)
LookAhead(x, i, i_ahead) ==
    IF i_ahead < Len(x) /\ Eq(x[i_ahead], x[i])
    THEN LookAhead(x, i, i_ahead + 1)
    ELSE i_ahead

\* scipy _local_maxima_1d, the scan from sample i: a sample above its left
\* neighbour starts a plateau; the plateau is a maximum when the next unequal
\* sample is lower, and its midpoint (left + right) // 2 is recorded.
RECURSIVE LocalMaximaFrom(_, _)
LocalMaximaFrom(x, i) ==
    IF i >= Len(x) THEN <<>>
    ELSE IF ~Lt(x[i - 1], x[i]) THEN LocalMaximaFrom(x, i + 1)
    ELSE LET i_ahead == LookAhead(x, i, i + 1)
         IN IF Lt(x[i_ahead], x[i])
            THEN <<(i + i_ahead - 1) \div 2>> \o LocalMaximaFrom(x, i_ahead + 1)
            ELSE LocalMaximaFrom(x, i + 1)

\* The local maxima with the end samples counted when they rise above their
\* only neighbour.
LocalMaximaWithEnds(x) ==
    (IF Len(x) >= 2 /\ Lt(x[2], x[1]) THEN <<1>> ELSE <<>>)
    \o LocalMaximaFrom(x, 2)
    \o (IF Len(x) >= 2 /\ Lt(x[Len(x) - 1], x[Len(x)]) THEN <<Len(x)>> ELSE <<>>)

\* All local maxima of x, in increasing order; the first and the last sample
\* are never one.
LocalMaxima(x) == LocalMaximaFrom(x, 2)

\* scipy _select_by_property with pmin = height: pmin <= peak_heights.
AboveHeight(v, height) == height <= v

\* The selection by height left out: every local maximum passes.
SelectAnyHeight(x, peaks, height) == peaks

\* The candidates that pass the height condition.
SelectByHeight(x, peaks, height) == SelectSeq(peaks, LAMBDA p : AboveHeight(x[p], height))

\* The positions in the candidate list within distance of candidate j.
TooClose(peaks, j, distance) ==
    { k \in DOMAIN peaks :
        k # j /\ Abs(peaks[j] - peaks[k]) < distance }

\* A distance selection that visits the candidates from left to right, whatever
\* their heights: the first one met is kept.
RECURSIVE KeptFirstCome(_, _, _, _, _)
KeptFirstCome(x, peaks, distance, kept, todo) ==
    IF todo = {} THEN {kept}
    ELSE LET j == CHOOSE h \in todo : \A k \in todo : h <= k
         IN IF j \in kept
            THEN KeptFirstCome(x, peaks, distance,
                               kept \ TooClose(peaks, j, distance), todo \ {j})
            ELSE KeptFirstCome(x, peaks, distance, kept, todo \ {j})

\* scipy _select_by_peak_distance: the candidates are visited in order of
\* decreasing height (np.argsort, whose order among equal heights is not
\* specified); a visited candidate that is still kept removes every candidate
\* closer than distance.  The set of all results the visiting orders allow,
\* each the set of kept positions of the candidate list.
RECURSIVE KeptAfter(_, _, _, _, _)
KeptAfter(x, peaks, distance, kept, todo) ==
    IF todo = {} THEN {kept}
    ELSE UNION { IF j \in kept
                 THEN KeptAfter(x, peaks, distance,
                                kept \ TooClose(peaks, j, distance), todo \ {j})
                 ELSE KeptAfter(x, peaks, distance, kept, todo \ {j}) :
                 j \in { h \in todo : \A k \in todo : x[peaks[k]] <= x[peaks[h]] } }

\* The whole candidate list kept: no distance condition.
SelectAll(x, peaks, distance) == { peaks }

\* The results of the distance selection, as index lists in increasing order.
SelectByDistance(x, peaks, distance) ==
    { SelectSeq(peaks, LAMBDA p : \E k \in kept : peaks[k] = p) :
        kept \in KeptAfter(x, peaks, distance, DOMAIN peaks, DOMAIN peaks) }

\* signal.find_peaks(x, height=height, distance=distance): the possible results.
find_peaks(x, height, distance) ==
    SelectByDistance(x, SelectByHeight(x, LocalMaxima(x), height), distance)

\* analyzer.find_peaks_and_minima(intensity).  The index lists hold 1-based
\* indices (Python index + 1).
FindPeaksAndMinima(intensity) ==
    /\ \E peaks \in find_peaks(intensity, PeakHeight, PeakDistance),
          minima \in find_peaks(Negated(intensity), MinimaHeight, PeakDistance) :
          ret' = [Outcome("find_peaks_and_minima") EXCEPT
                    !.intensity = intensity, !.peaks = peaks, !.minima = minima]
    /\ UNCHANGED <<sim, experimental_data, theoretical_data>>

\* find_peaks_and_minima(intensity): the pairs (peaks, minima) it can return.
find_peaks_and_minima(intensity) ==
    find_peaks(intensity, PeakHeight, PeakDistance)
    \X find_peaks(Negated(intensity), MinimaHeight, PeakDistance)

\* Both searches of compare_with_theory made on the theoretical pattern.
ExtremaOfTheoryOnly(experimental, theoretical) ==
    { [experimental_peaks |-> t[1], experimental_minima |-> t[2],
       theoretical_peaks |-> t[1], theoretical_minima |-> t[2]] :
        t \in find_peaks_and_minima(theoretical) }

\* exp_peaks, exp_minima = self.find_peaks_and_minima(self.experimental_data)
\* theo_peaks, theo_minima = self.find_peaks_and_minima(theoretical).
ExtremaOfBoth(experimental, theoretical) ==
    { [experimental_peaks |-> e[1], experimental_minima |-> e[2],
       theoretical_peaks |-> t[1], theoretical_minima |-> t[2]] :
        e \in find_peaks_and_minima(experimental),
        t \in find_peaks_and_minima(theoretical) }

\* The comparison made against the single-slit pattern.
ComparisonModeSingle == FALSE

\* simulator.simulate_experiment(screen_width, resolution): double_slit is
\* not passed and takes its default, True.
ComparisonMode == TRUE

\* compare_with_theory clearing theoretical_data when it finds no data.
CompareWithTheoryClearing(screen_width) ==
    /\ IF HasNoData(experimental_data) \/ experimental_data.arr = <<>>
       THEN /\ theoretical_data' = None
            /\ ret' = [Outcome("compare_with_theory") EXCEPT
                          !.setup = sim, !.screen_width = screen_width,
                          !.experimental = experimental_data, !.err = ErrNoData]
       ELSE \E r \in {simulate_experiment(sim, screen_width, Len(experimental_data.arr), TRUE)} :
               /\ theoretical_data' = Some(r.intensity)
               /\ ret' = [Outcome("compare_with_theory") EXCEPT
                             !.setup = sim, !.screen_width = screen_width,
                             !.resolution = Len(experimental_data.arr),
                             !.experimental = experimental_data,
                             !.theoretical = Some(r.intensity), !.err = r.err]
    /\ UNCHANGED <<sim, experimental_data>>

\* compare_with_theory returning the generated pattern without storing it.
CompareWithTheoryNotStoring(screen_width) ==
    /\ ~HasNoData(experimental_data)
    /\ \E r \in {simulate_experiment(sim, screen_width, Len(experimental_data.arr), TRUE)} :
          /\ r.err = NoError
          /\ ret' = [Outcome("compare_with_theory") EXCEPT
                        !.setup = sim, !.screen_width = screen_width,
                        !.resolution = Len(experimental_data.arr),
                        !.experimental = experimental_data,
                        !.theoretical = Some(r.intensity)]
    /\ UNCHANGED <<sim, experimental_data, theoretical_data>>

\* compare_with_theory moving the experimental data into theoretical_data
\* instead of storing the generated pattern.
CompareWithTheoryConsuming(screen_width) ==
    /\ ~HasNoData(experimental_data)
    /\ theoretical_data' = experimental_data
    /\ experimental_data' = None
    /\ ret' = [Outcome("compare_with_theory") EXCEPT
                  !.setup = sim, !.screen_width = screen_width,
                  !.experimental = experimental_data,
                  !.theoretical = experimental_data]
    /\ UNCHANGED sim

\* analyzer.compare_with_theory(sim, screen_width).
CompareWithTheory(screen_width) ==
    LET call == [Outcome("compare_with_theory") EXCEPT
                    !.setup = sim, !.screen_width = screen_width,
                    !.experimental = experimental_data]
    IN IF HasNoData(experimental_data)
       THEN /\ ret' = [call EXCEPT !.err = ErrNoData]
            /\ UNCHANGED <<sim, experimental_data, theoretical_data>>
       ELSE \E resolution \in {ComparisonResolution(experimental_data)} :
            \E r \in {simulate_experiment(sim, screen_width, resolution, ComparisonMode)} :
               IF r.err # NoError
               THEN /\ ret' = [call EXCEPT !.resolution = resolution, !.err = r.err]
                    /\ UNCHANGED <<sim, experimental_data, theoretical_data>>
               ELSE /\ theoretical_data' = Some(r.intensity)
                    /\ UNCHANGED <<sim, experimental_data>>
                    /\ \E generated \in {[call EXCEPT !.resolution = resolution,
                                                      !.y_positions = r.y_positions,
                                                      !.theoretical = Some(r.intensity)]} :
                          IF Len(r.intensity) # Len(experimental_data.arr)
                          THEN ret' = [generated EXCEPT !.err = ErrShape]
                          ELSE \E found \in ExtremaOfBoth(experimental_data.arr, r.intensity) :
                                  ret' = [generated EXCEPT
                                            !.correlation = Corrcoef(experimental_data.arr, r.intensity),
                                            !.rms_error = RmsError(experimental_data.arr, r.intensity),
                                            !.peaks = found.experimental_peaks,
                                            !.minima = found.experimental_minima,
                                            !.theoretical_peaks = found.theoretical_peaks,
                                            !.theoretical_minima = found.theoretical_minima]

\* Length of the intensity sequences searched for extrema: long enough for two
\* extrema PeakDistance apart with a third between them.
SignalLength == 13

\* Intensity levels: below, at and above the peak threshold 0.1, and below, at
\* and above the minima threshold 0.9.
Levels == {0, 50, 100, 900, 950, Scale}

\* Base levels of the sequences: dark and saturated.
BaseLevels == {0, Scale}

\* How far a sample departs from the base level: to below the threshold next
\* to the base, to that threshold, and to the other end of the range.
Departures == {50, 100, Scale}

\* The sequence with the sample at the positions of f departing by f[i] from
\* base, and base elsewhere.
Spiked(base, f) ==
    [i \in 1..SignalLength |-> IF i \in DOMAIN f THEN Abs(base - f[i]) ELSE base]

\* Intensity sequences: a base level with up to three samples at other levels
\* (adjacent ones form plateaus), and every sequence of up to 3 samples.
Signals ==
    UNION { { Spiked(b, f) : f \in [P -> Departures] } :
              P \in { Q \in SUBSET (1..SignalLength) : Cardinality(Q) <= 3 },
              b \in BaseLevels }
    \cup UNION { [1..n -> Levels] : n \in 0..3 }

\* Number of samples of the cosine test signal, and the most periods sampled.
CosineSamples == 100
MaxPeriods == 3

\* 0.5 + 0.4 * np.cos(x) on the array x.
CosineOf(x) == [i \in 1..Len(x) |-> Scale \div 2 + FMul(400, Cos(x[i]))]

\* 0.5 + 0.4 * np.cos(x) for x = np.linspace(0, periods * 2 pi, samples).
CosineSignal(samples, periods) == CosineOf(Linspace(0, periods * 2 * Pi, samples))

\* The cosine signals by number of periods: whole numbers of periods over 50
\* or 100 samples, each period longer than PeakDistance samples.
CosineSignalsOf ==
    [k \in 1..MaxPeriods |->
        { CosineSignal(n, k) : n \in {CosineSamples \div 2, CosineSamples} }]

CosineSignals == UNION { CosineSignalsOf[k] : k \in 1..MaxPeriods }

\* The signal of test_find_peaks_and_minima: 100 samples of [0, 4 pi].
TestSignal == CosineSignal(CosineSamples, 2)

\* An analyzer holding an intensity sequence a caller assigned.
InitPeaks ==
    /\ sim = DefaultSetup
    /\ experimental_data \in { Some(x) : x \in Signals \cup CosineSignals }
    /\ theoretical_data = None
    /\ ret = Outcome("init")

\* ------------------------------------------- direct calls on explicit grids

\* Largest number of positions in a grid handed to the intensity methods.
MaxGridLength == 4

\* Screen positions (um) of the grids: the centre, the first dark fringe of the
\* default double slit (lambda D / 2d = 1.625 mm), the first zero of its
\* single-slit envelope (lambda D / a = 13 mm) and the middle of the first side
\* lobe of the envelope (19.5 mm), on both sides.
GridPositions == {-19500, -13000, -1625, 0, 1625, 13000, 19500}

\* y_positions arguments: the increasing position arrays of up to
\* MaxGridLength elements, symmetric about 0 or not.
Grids ==
    UNION { { g \in [1..n -> GridPositions] : \A i \in 1..(n - 1) : g[i] < g[i + 1] } :
              n \in 0..MaxGridLength }

\* Simulators used on the grids: the default one, and one with slits so narrow
\* that beta is one unit of the model at the grid positions (a beta below the
\* 1e-10 guard that is not 0, of either sign).
GridSetups == {DefaultSetup, Setup(DefaultWavelength, 16, 64, DefaultScreenDistance)}

\* sim.single_slit_intensity(y_positions).
SingleSlitIntensity(y_positions) ==
    /\ ret' = [Outcome("single_slit_intensity") EXCEPT
                  !.setup = sim, !.double_slit = FALSE, !.y_positions = y_positions,
                  !.intensity = single_slit_intensity(sim, y_positions)]
    /\ UNCHANGED <<sim, experimental_data, theoretical_data>>

\* sim.double_slit_intensity(y_positions).
DoubleSlitIntensity(y_positions) ==
    /\ ret' = [Outcome("double_slit_intensity") EXCEPT
                  !.setup = sim, !.double_slit = TRUE, !.y_positions = y_positions,
                  !.intensity = double_slit_intensity(sim, y_positions)]
    /\ UNCHANGED <<sim, experimental_data, theoretical_data>>

\* sim.fraunhofer_diffraction(y_positions, double_slit).
FraunhoferDiffraction(y_positions, double_slit) ==
    \E r \in {fraunhofer_diffraction(sim, y_positions, double_slit)} :
       /\ ret' = [Outcome("fraunhofer_diffraction") EXCEPT
                     !.err = r.err, !.setup = sim, !.double_slit = double_slit,
                     !.y_positions = y_positions, !.intensity = r.intensity]
       /\ UNCHANGED <<sim, experimental_data, theoretical_data>>

\* ------------------------------------------ the pattern at fine resolution
\*
\* The same formulas with numbers of six decimals (1.0 is FineScale), for the
\* calls whose grid is finer than the angular resolution 1/Scale of the
\* numbers above (1 mm on a screen 1 m away).  Positions stay in micrometres,
\* slit lengths in nanometres.

\* Fixed-point image of 1.0 at fine resolution.
FineScale == 1000000

\* np.pi at fine resolution.
FinePi == 3141593

\* The 1e-10 of the beta guard at fine resolution: the smallest magnitudes.
FineBetaEps == 2

\* Float product of a, b >= 0, rounded down, formed from three-digit halves so
\* that no intermediate product leaves the integer range.
FineMulPos(a, b) ==
    (a \div 1000) * (b \div 1000)
    + ((a \div 1000) * (b % 1000) + (a % 1000) * (b \div 1000)
       + ((a % 1000) * (b % 1000)) \div 1000) \div 1000

\* Float product, rounded towards zero.
FineMul(a, b) == Sign(a) * Sign(b) * FineMulPos(Abs(a), Abs(b))

\* Float quotient a / b of a >= 0, b > 0, rounded down: long division, two
\* decimals at a time.
FineDivPos(a, b) ==
    ((a * 100) \div b) * 10000
    + ((((a * 100) % b) * 100) \div b) * 100
    + ((((((a * 100) % b) * 100) % b) * 100) \div b)

\* Float quotient, rounded towards zero.
FineDiv(a, b) == Sign(a) * Sign(b) * FineDivPos(Abs(a), Abs(b))

\* x - x^3/3! + ... - x^11/11! in Horner form, x2 being the square of x.
FineSinSeries(x, x2) ==
    FineMul(x, FineScale - FineMul(x2 \div 6,
               FineScale - FineMul(x2 \div 20,
               FineScale - FineMul(x2 \div 42,
               FineScale - FineMul(x2 \div 72, FineScale - x2 \div 110)))))

\* np.sin on [0, pi/2].
FineSinQ(x) == FineSinSeries(x, FineMul(x, x))

\* The first-quadrant angle with the sine magnitude of r, 0 <= r < 2 pi.
FineQuadrantArg(r) ==
    IF r <= FinePi \div 2 THEN r
    ELSE IF r <= FinePi THEN FinePi - r
    ELSE IF r <= FinePi + FinePi \div 2 THEN r - FinePi
    ELSE 2 * FinePi - r

\* The sign of the sine of r, 0 <= r < 2 pi.
FineQuadrantSign(r) == IF r <= FinePi THEN 1 ELSE -1

\* np.sin for x >= 0.
FineSinPos(x) ==
    FineQuadrantSign(x % (2 * FinePi)) * FineSinQ(FineQuadrantArg(x % (2 * FinePi)))

\* np.sin (odd).
FineSin(x) == Sign(x) * FineSinPos(Abs(x))

\* np.cos (even).
FineCos(x) == FineSinPos(Abs(x) + FinePi \div 2)

\* t - t^3/3 + t^5/5, t2 being the square of t.
FineArcTanSeries(t, t2) ==
    FineMul(t, FineScale - FineMul(t2, FineScale \div 3 - FineMul(t2, FineScale \div 5)))

\* np.arctan for |t| <= 0.1 (positions up to a tenth of the screen distance).
FineArcTan(t) == FineArcTanSeries(t, FineMul(t, t))

\* theta = np.arctan(y / screen_distance), screen_distance > 0.
FineTheta(y, D) == FineArcTan(FineDiv(y, D))

\* (np.pi * width * np.sin(theta)) / wavelength.
FinePhase(width, theta, wavelength) ==
    MulDiv(FineMul(FinePi, FineSin(theta)), width, wavelength)

\* beta_safe = np.where(np.abs(beta) < 1e-10, 1e-10, beta).
FineBetaSafe(beta) == IF Abs(beta) < FineBetaEps THEN FineBetaEps ELSE beta

\* x ** 2.
FineSquare(x) == FineMul(x, x)

\* (np.sin(beta_safe) / beta_safe) ** 2.
FineSincSquared(bs) == FineSquare(FineDiv(FineSin(bs), bs))

\* The single-slit envelope at the angle theta.
FineSingleSlitTerm(s, theta) ==
    FineSincSquared(FineBetaSafe(FinePhase(s.slit_width, theta, s.wavelength)))

\* The interference term with the whole phase difference 2 delta in the cosine.
FineInterferenceFullPhase(s, theta) ==
    FineSquare(FineCos(2 * FinePhase(s.slit_separation, theta, s.wavelength)))

\* np.cos(delta) ** 2 at the angle theta.
FineInterferenceTerm(s, theta) ==
    FineSquare(FineCos(FinePhase(s.slit_separation, theta, s.wavelength)))

\* The double-slit value without its interference term.
FineEnvelopeOnly(s, theta) == FineSingleSlitTerm(s, theta)

\* single_slit_term * interference_term at the angle theta.
FineDoubleSlitAtAngle(s, theta) ==
    FineMul(FineSingleSlitTerm(s, theta), FineInterferenceTerm(s, theta))

\* single_slit_intensity on the grid.
FineSingleSlitIntensity(s, y_positions) ==
    [i \in 1..Len(y_positions) |->
        FineSingleSlitTerm(s, FineTheta(y_positions[i], s.screen_distance))]

\* double_slit_intensity on the grid.
FineDoubleSlitIntensity(s, y_positions) ==
    [i \in 1..Len(y_positions) |->
        FineDoubleSlitAtAngle(s, FineTheta(y_positions[i], s.screen_distance))]

\* np.max of a non-empty array.
FineMax(x) == CHOOSE m \in { x[i] : i \in 1..Len(x) } : \A i \in 1..Len(x) : x[i] <= m

\* intensity / m.
FineDividedBy(intensity, m) == [i \in 1..Len(intensity) |-> FineDiv(intensity[i], m)]

\* intensity / np.max(intensity), the maximum positive.
FineNormalize(intensity) == FineDividedBy(intensity, FineMax(intensity))

\* np.linspace(start, stop, num), num >= 2, each position rounded to the
\* nearest micrometre: start + i * (stop - start) / (num - 1).
FineLinspace(start, stop, num) ==
    [i \in 1..num |->
        start + (2 * (stop - start) * (i - 1) + (num - 1)) \div (2 * (num - 1))]

\* fraunhofer_diffraction on the grid, the maximum positive.
FineFraunhofer(s, y_positions, double_slit) ==
    FineNormalize(IF double_slit THEN FineDoubleSlitIntensity(s, y_positions)
                  ELSE FineSingleSlitIntensity(s, y_positions))

\* Number of grid points of the fringe-spacing test and of the
\* energy-conservation test.
FringeResolution == 2000
PowerResolution == 1000

\* resolution arguments of the calls at fine resolution: those of the two
\* tests and twenty-five coarser ones.
FineResolutions == {FringeResolution, PowerResolution} \cup 100..124

\* A simulate_experiment call entered on the default simulator, with its
\* arguments.
InitFringe ==
    /\ sim = DefaultSetup
    /\ experimental_data = None
    /\ theoretical_data = None
    /\ \E n \in FineResolutions, d \in BOOLEAN :
          ret = [Outcome("simulate_experiment called") EXCEPT
                   !.screen_width = 2 * DefaultScreenWidth, !.resolution = n,
                   !.double_slit = d]

\* The call returns: the grid, and the normalised pattern with values at
\* fine resolution.  (The default slits never give an all-zero pattern on
\* these grids.)
SimulateExperimentFine ==
    /\ \E y \in {FineLinspace(FDiv(-ret.screen_width, 2), FDiv(ret.screen_width, 2),
                              ret.resolution)} :
          ret' = [ret EXCEPT !.op = "simulate_experiment", !.setup = sim,
                             !.y_positions = y,
                             !.intensity = FineFraunhofer(sim, y, ret.double_slit)]
    /\ UNCHANGED <<sim, experimental_data, theoretical_data>>

\* ---------------------------------------------------------- specifications

\* The simulator on its own: construction and simulation.
Next ==
    \/ \E s \in ValidSetups \cup InvalidSetups : NewSimulator(s)
    \/ \E w \in ScreenWidths, n \in Resolutions, d \in BOOLEAN : SimulateExperiment(w, n, d)

Spec == Init /\ [][Next]_vars

\* The analyzer with a simulator built from valid arguments.
NextAnalyzer ==
    \/ \E s \in ValidSetups : NewSimulator(s)
    \/ LoadImageFails
    \/ \E l \in CenterLines : LoadImage(l)
    \/ \E a \in AssignedArrays : AssignExperimentalData(a)
    \/ \E w \in ScreenWidths : CompareWithTheory(w)

SpecAnalyzer == Init /\ [][NextAnalyzer]_vars

\* The intensity methods called directly on explicit grids.
NextGrid ==
    \/ \E s \in GridSetups : NewSimulator(s)
    \/ \E g \in Grids : SingleSlitIntensity(g)
    \/ \E g \in Grids : DoubleSlitIntensity(g)

SpecGrid == Init /\ [][NextGrid]_vars

\* find_peaks_and_minima applied to the sequence the analyzer holds.
NextPeaks == FindPeaksAndMinima(experimental_data.arr)

SpecPeaks == InitPeaks /\ [][NextPeaks]_vars

\* The patterns computed at fine resolution.
NextFringe == SimulateExperimentFine

SpecFringe == InitFringe /\ [][NextFringe]_vars

\* Grids as the callers build them: np.linspace over the default screen
\* width, of the two largest resolutions (one even, one odd).
LinspaceGrids ==
    { Linspace(FDiv(-DefaultScreenWidth, 2), FDiv(DefaultScreenWidth, 2), n) :
        n \in (MaxResolution - 1)..MaxResolution }

\* Centre lines of images of the largest width.
WideCenterLines == [1..MaxPixels -> PixelValues]

\* Every method that is handed a simulator, on one simulator and one analyzer.
NextUse ==
    \/ \E s \in ValidSetups : NewSimulator(s)
    \/ \E g \in LinspaceGrids : SingleSlitIntensity(g)
    \/ \E g \in LinspaceGrids : DoubleSlitIntensity(g)
    \/ \E g \in LinspaceGrids, d \in BOOLEAN : FraunhoferDiffraction(g, d)
    \/ \E n \in 0..MaxResolution, d \in BOOLEAN : SimulateExperiment(DefaultScreenWidth, n, d)
    \/ \E l \in WideCenterLines : LoadImage(l)
    \/ CompareWithTheory(DefaultScreenWidth)

SpecUse == Init /\ [][NextUse]_vars

\* ------------------------------------------------------------------ claims

Simulated == ret.op = "simulate_experiment"

Compared == ret.op = "compare_with_theory"

Returned == ret.err = NoError

\* The raw (un-normalised) intensity array of the last simulate_experiment call.
RawIntensity ==
    LET y == Linspace(FDiv(-ret.screen_width, 2), FDiv(ret.screen_width, 2), ret.resolution)
    IN IF ret.double_slit THEN double_slit_intensity(ret.setup, y)
       ELSE single_slit_intensity(ret.setup, y)

\* C1: for a simulator with positive parameters, screen_width > 0 and
\* resolution >= 2, in either mode, every value of the intensity array that
\* simulate_experiment returns lies in [0, 1] and the maximum of the array is 1.
C1_NormalisedRange ==
    (Simulated /\ Returned /\ IsValidSetup(ret.setup)
        /\ ret.screen_width > 0 /\ ret.resolution >= 2)
    => /\ \A i \in 1..Len(ret.intensity) : ret.intensity[i] \in 0..Scale
       /\ SeqMax(ret.intensity) = Scale

\* The part of C2 that does not mention symmetry: both arrays have resolution
\* elements, the positions increase strictly from -screen_width/2 to
\* +screen_width/2.
GridShape ==
    /\ Len(ret.y_positions) = ret.resolution
    /\ Len(ret.intensity) = ret.resolution
    /\ \A i \in 1..(ret.resolution - 1) : ret.y_positions[i] < ret.y_positions[i + 1]
    /\ ret.y_positions[1] = FDiv(-ret.screen_width, 2)
    /\ ret.y_positions[ret.resolution] = FDiv(ret.screen_width, 2)

GridCall == Simulated /\ Returned /\ ret.screen_width > 0 /\ ret.resolution >= 2

\* C2 as stated: simulate_experiment returns two index-aligned arrays of
\* resolution elements, the positions strictly increasing from -screen_width/2
\* to +screen_width/2, and the grid exactly symmetric: y[i] = -y[N-1-i].
C2_GridExactlySymmetric ==
    GridCall
    => /\ GridShape
       /\ \A i \in 1..ret.resolution :
             ret.y_positions[i] = -ret.y_positions[ret.resolution + 1 - i]

\* C2 amended: the same, with the grid symmetric up to the rounding of the
\* step: |y[i] + y[N-1-i]| stays below N - 1 rounding units, and is 0 for the
\* two end points.
C2_GridSymmetricWithinRounding ==
    GridCall
    => /\ GridShape
       /\ ret.y_positions[1] = -ret.y_positions[ret.resolution]
       /\ \A i \in 1..ret.resolution :
             Abs(ret.y_positions[i] + ret.y_positions[ret.resolution + 1 - i])
                < ret.resolution - 1

\* A grid of a valid call whose interior points are not exact mirror images.
C2_Witness ==
    /\ GridCall
    /\ \E i \in 1..ret.resolution :
          ret.y_positions[i] # -ret.y_positions[ret.resolution + 1 - i]

\* C3: simulate_experiment with resolution < 2 or screen_width <= 0 fails
\* and returns no arrays.
C3_InvalidArgumentsRejected ==
    (Simulated /\ (ret.resolution < 2 \/ ret.screen_width <= 0))
    => /\ ~Returned
       /\ ret.y_positions = <<>>
       /\ ret.intensity = <<>>

\* C4: constructing a simulator with a non-positive wavelength, slit width,
\* slit separation or screen distance fails, so that no intensity array is
\* ever computed from such a setup.
C4_InvalidSetupRejected ==
    /\ (ret.op = "new_simulator" /\ ~IsValidSetup(ret.setup)) => ~Returned
    /\ IsValidSetup(sim)
    /\ (Simulated /\ ~IsValidSetup(ret.setup)) => ret.intensity = <<>>

\* C5: whenever the maximum of the raw intensity array is <= 0, normalisation
\* fails and no array is returned (stated for the setups with positive
\* parameters and screen_width > 0, where the raw values are all numbers).
C5_DegenerateInputRejected ==
    (Simulated /\ IsValidSetup(ret.setup) /\ ret.screen_width > 0
        /\ ret.resolution >= 1
        /\ SeqMax(RawIntensity) # NaN /\ SeqMax(RawIntensity) <= 0)
    => /\ ~Returned
       /\ ret.intensity = <<>>

\* C6: compare_with_theory on an analyzer whose experimental_data is None
\* fails with the no-data error, before a theoretical pattern is generated or
\* a statistic computed.
C6_NoDataRaisedFirst ==
    (Compared /\ ret.experimental.none)
    => /\ ret.err = ErrNoData
       /\ ret.theoretical = None
       /\ ret.y_positions = <<>>

\* A comparison attempted on a fresh analyzer and refused.
C6_Witness ==
    Compared /\ ret.experimental.none /\ ret.err = ErrNoData /\ experimental_data.none

\* C7: compare_with_theory on an analyzer whose experimental_data is an empty
\* sequence fails with the same no-data error, raised by the analyzer's own
\* check.
C7_EmptyDataIsNoData ==
    (Compared /\ ~ret.experimental.none /\ Len(ret.experimental.arr) = 0)
    => ret.err = ErrNoData

\* C8: correlation and RMS error are only ever computed on two sequences of
\* equal length: every theoretical pattern a comparison generates has the
\* length of the experimental data, and a comparison that returns statistics
\* has generated one.
C8_ComparedLengthsAgree ==
    /\ (Compared /\ ~ret.theoretical.none)
          => Len(ret.theoretical.arr) = Len(ret.experimental.arr)
    /\ (Compared /\ Returned)
          => /\ ~ret.theoretical.none
             /\ Len(ret.theoretical.arr) = Len(ret.experimental.arr)

\* A comparison of two sequences of several samples that returned statistics.
C8_Witness ==
    /\ Compared /\ Returned
    /\ Len(ret.experimental.arr) >= 2
    /\ Len(ret.theoretical.arr) = Len(ret.experimental.arr)

\* C9: whenever experimental_data is element for element the theoretical
\* pattern generated for the comparison, compare_with_theory returns
\* correlation 1.0 and rms_error 0.0 (stated for screen_width > 0, at least
\* two samples and a pattern of numbers).
C9_IdenticalIsPerfect ==
    (Compared /\ Returned
        /\ ret.screen_width > 0 /\ ret.resolution >= 2
        /\ ret.experimental.arr = ret.theoretical.arr
        /\ ~HasNaN(ret.theoretical.arr))
    => /\ ret.correlation = Scale
       /\ ret.rms_error = 0

\* C10: for a non-empty experimental sequence with values in [0, 1] and a
\* valid simulator (and screen_width > 0), a comparison that returns yields a
\* correlation in [-1, 1] and an rms_error >= 0, both real numbers.
C10_StatisticsAreReal ==
    (Compared /\ Returned /\ IsValidSetup(ret.setup) /\ ret.screen_width > 0
        /\ Len(ret.experimental.arr) >= 1
        /\ \A i \in 1..Len(ret.experimental.arr) : ret.experimental.arr[i] \in 0..Scale)
    => /\ ret.correlation \in (-Scale)..Scale
       /\ ret.rms_error # NaN
       /\ ret.rms_error >= 0

\* C11 (as stated): a compare_with_theory call, successful or not, leaves
\* experimental_data, theoretical_data and the simulator exactly as they were.
C11_CompareIsPure ==
    [][ret'.op = "compare_with_theory"
         => UNCHANGED <<sim, experimental_data, theoretical_data>>]_vars

\* C11 (amended): a compare_with_theory call leaves the simulator and
\* experimental_data as they were; theoretical_data is left as it was when the
\* call raises before the pattern is generated, and otherwise becomes the
\* generated theoretical pattern, as long as the experimental data.
C11_CompareStoresOnlyTheory ==
    [][ret'.op = "compare_with_theory"
         => /\ sim' = sim
            /\ experimental_data' = experimental_data
            /\ IF ret'.err \in {ErrNoData, ErrEmptyMax, ErrNegativeSamples}
               THEN theoretical_data' = theoretical_data
               ELSE /\ ~theoretical_data'.none
                    /\ theoretical_data' = ret'.theoretical
                    /\ Len(theoretical_data'.arr) = Len(experimental_data.arr)]_vars

\* A comparison that returned and stored a pattern different from the data.
C11_Witness ==
    /\ Compared /\ Returned
    /\ theoretical_data = ret.theoretical
    /\ ~theoretical_data.none
    /\ theoretical_data.arr # experimental_data.arr

\* The last call was single_slit_intensity or double_slit_intensity.
DirectIntensity == ret.op \in {"single_slit_intensity", "double_slit_intensity"}

\* y[i] = -y[N-1-i] for every index.
GridSymmetric(y) == \A i \in 1..Len(y) : y[i] = -y[Len(y) + 1 - i]

\* beta of the last call at position y.
BetaAt(y) == Phase(ret.setup.slit_width, Theta(y, ret.setup.screen_distance), ret.setup.wavelength)

\* C13: on a grid symmetric about 0 the output of single_slit_intensity and of
\* double_slit_intensity is mirror-symmetric, intensity[i] = intensity[N-1-i]
\* for every index, the positions with a substituted beta included.
C13_MirrorSymmetric ==
    (DirectIntensity /\ GridSymmetric(ret.y_positions))
    => \A i \in 1..Len(ret.intensity) :
          /\ ret.intensity[i] # NaN
          /\ ret.intensity[i] = ret.intensity[Len(ret.intensity) + 1 - i]

\* A symmetric grid of four positions where beta is substituted away from the
\* centre, on the negative and on the positive side.
C13_Witness ==
    /\ DirectIntensity /\ GridSymmetric(ret.y_positions)
    /\ Len(ret.y_positions) = 4
    /\ \E i, j \in 1..4 :
          /\ BetaAt(ret.y_positions[i]) < 0 /\ BetaAt(ret.y_positions[i]) > -BetaEps
          /\ BetaAt(ret.y_positions[j]) > 0 /\ BetaAt(ret.y_positions[j]) < BetaEps

\* C12: a simulator holds the four values it was constructed with (the
\* defaults when none are given), and no single_slit_intensity,
\* double_slit_intensity, fraunhofer_diffraction, simulate_experiment or
\* compare_with_theory call modifies them.
C12_SetupNeverModified ==
    [][/\ ret.op = "init" => sim = DefaultSetup
       /\ (ret'.op = "new_simulator" /\ ret'.err = NoError) => sim' = ret'.setup
       /\ ret'.op # "new_simulator" => sim' = sim]_vars

\* A comparison that returned on a simulator built with other values than the
\* defaults.
C12_Witness == Compared /\ Returned /\ sim # DefaultSetup /\ ret.setup = sim

\* The last call was find_peaks_and_minima.
Found == ret.op = "find_peaks_and_minima"

\* An interior sample with no higher neighbour.
IsLocalMaximum(x, p) ==
    /\ p \in 2..(Len(x) - 1)
    /\ x[p] # NaN
    /\ ~Lt(x[p], x[p - 1])
    /\ ~Lt(x[p], x[p + 1])

\* C14: every index returned as a peak is a local maximum of the sequence (an
\* interior index with no higher neighbour) whose value exceeds the height
\* threshold 0.1; no local maximum with a value at or below 0.1 is returned.
C14_PeaksExceedHeight ==
    Found => \A k \in DOMAIN ret.peaks :
                /\ IsLocalMaximum(ret.intensity, ret.peaks[k])
                /\ ret.intensity[ret.peaks[k]] > PeakHeight

\* The local maxima of the searched sequence that pass the height condition.
PeakCandidates == SelectByHeight(ret.intensity, LocalMaxima(ret.intensity), PeakHeight)

\* The local minima of the searched sequence that pass the height condition.
MinimaCandidates ==
    SelectByHeight(Negated(ret.intensity), LocalMaxima(Negated(ret.intensity)), MinimaHeight)

\* Any two distinct entries of the index list are at least PeakDistance apart.
FarApart(l) ==
    \A j, k \in DOMAIN l : j # k => Abs(l[j] - l[k]) >= PeakDistance

\* C15: any two distinct indices in the returned peak list are at least
\* min_gap = 10 indices apart, and so are any two in the returned minima list.
C15_ExtremaFarApart == Found => FarApart(ret.peaks) /\ FarApart(ret.minima)

\* Two peaks returned exactly min_gap apart while a third candidate between
\* them was suppressed.
C15_Witness ==
    /\ Found
    /\ Len(ret.peaks) = 2 /\ ret.peaks[2] - ret.peaks[1] = PeakDistance
    /\ Len(PeakCandidates) = 3

\* The entries of the candidate list that are not in the returned list.
Suppressed(candidates, returned) ==
    { candidates[k] : k \in DOMAIN candidates } \ { returned[k] : k \in DOMAIN returned }

\* Every suppressed candidate is closer than min_gap to a returned index whose
\* value in x is at least as high.
Dominated(x, candidates, returned) ==
    \A c \in Suppressed(candidates, returned) :
       \E k \in DOMAIN returned :
          /\ Abs(returned[k] - c) < PeakDistance
          /\ x[returned[k]] >= x[c]

\* The same with ties settled by a left-to-right scan: the returned index is
\* strictly higher, or as high and to the left of the suppressed candidate.
DominatedLeftToRight(x, candidates, returned) ==
    \A c \in Suppressed(candidates, returned) :
       \E k \in DOMAIN returned :
          /\ Abs(returned[k] - c) < PeakDistance
          /\ \/ x[returned[k]] > x[c]
             \/ x[returned[k]] = x[c] /\ returned[k] < c

StrictlyIncreasing(l) == \A k \in 1..(Len(l) - 1) : l[k] < l[k + 1]

\* C17: the returned peak list and the returned minima list are each strictly
\* increasing in index (ordered by position, no duplicates) and share no
\* index, flat plateaus included.
C17_OrderedAndDisjoint ==
    Found => /\ StrictlyIncreasing(ret.peaks)
             /\ StrictlyIncreasing(ret.minima)
             /\ \A j \in DOMAIN ret.peaks, k \in DOMAIN ret.minima :
                   ret.peaks[j] # ret.minima[k]

\* A peak reported on a flat plateau next to a reported minimum.
C17_Witness ==
    /\ Found
    /\ \E j \in DOMAIN ret.peaks, k \in DOMAIN ret.minima :
          /\ ret.intensity[ret.peaks[j] + 1] = ret.intensity[ret.peaks[j]]
          /\ ret.minima[k] = ret.peaks[j] + 2

\* The searched sequence is the cosine signal of this many periods.
IsCosine(periods) == ret.intensity \in CosineSignalsOf[periods]

CentreIndex == Len(ret.y_positions) \div 2 + 1

\* Every value of the returned array is a number in [0, 1], and there are as
\* many as grid positions.
RawShape ==
    /\ Len(ret.intensity) = Len(ret.y_positions)
    /\ \A i \in 1..Len(ret.intensity) :
          ret.intensity[i] # NaN /\ 0 <= ret.intensity[i] /\ ret.intensity[i] <= Scale

\* No value of the returned array is above the one at the centre index.
CentreIsMaximum ==
    \A i \in 1..Len(ret.intensity) : ret.intensity[i] <= ret.intensity[CentreIndex]

\* C19 (as stated): on a non-empty grid symmetric about 0 the raw output of
\* single_slit_intensity and of double_slit_intensity has the length of the
\* grid, every value in [0, 1], and its maximum at the centre index
\* len(grid) // 2.
C19_RawShapeAndCentreMax ==
    (DirectIntensity /\ GridSymmetric(ret.y_positions) /\ Len(ret.y_positions) > 0)
    => RawShape /\ CentreIsMaximum

\* C19 (amended): on a grid symmetric about 0 the raw output has the length of
\* the grid and every value in [0, 1]; when the grid has odd length, so that
\* its centre sample is y = 0, the value there is 1.0 and it is the maximum of
\* the array.
C19_RawShapeAndZeroMax ==
    (DirectIntensity /\ GridSymmetric(ret.y_positions))
    => /\ RawShape
       /\ Len(ret.y_positions) % 2 = 1
             => /\ ret.y_positions[CentreIndex] = 0
                /\ ret.intensity[CentreIndex] = Scale
                /\ CentreIsMaximum

\* A double-slit call on a symmetric grid of three positions whose outer
\* values are lower than the centre one but not zero.
C19_Witness ==
    /\ ret.op = "double_slit_intensity"
    /\ GridSymmetric(ret.y_positions)
    /\ Len(ret.y_positions) = 3
    /\ ret.intensity[1] > 0 /\ ret.intensity[1] < ret.intensity[2]

\* The call of the fringe-spacing test has returned: default slits, a 2 cm
\* screen, 2000 points, double slit.
FringeCall ==
    /\ Simulated
    /\ ret.setup = DefaultSetup
    /\ ret.screen_width = 2 * DefaultScreenWidth
    /\ ret.resolution = FringeResolution
    /\ ret.double_slit

\* A run of equal samples starts at l, above the sample before it and above
\* the sample after the run.
IsMaxStart(x, l) ==
    /\ x[l - 1] < x[l]
    /\ \E r \in l..(Len(x) - 1) : x[r + 1] < x[l] /\ \A j \in l..r : x[j] = x[l]

\* The last sample of the run of equal samples that starts at l.
PlateauEnd(x, l) ==
    CHOOSE r \in l..(Len(x) - 1) : x[r + 1] # x[l] /\ \A j \in l..r : x[j] = x[l]

\* The local maxima of x, a run of equal samples counted once, at its middle.
PlateauMaxima(x) ==
    { (l + PlateauEnd(x, l)) \div 2 : l \in { m \in 2..(Len(x) - 1) : IsMaxStart(x, m) } }

\* The positions (um) of the local maxima of the returned pattern above 0.3.
BrightMaxima ==
    { ret.y_positions[p] :
        p \in { q \in PlateauMaxima(ret.intensity) : ret.intensity[q] > 3 * (FineScale \div 10) } }

\* lambda * D / d in micrometres.
TheoreticalSpacing ==
    MulDiv(ret.setup.wavelength, ret.setup.screen_distance, ret.setup.slit_separation)

\* The largest and the smallest of a non-empty set of positions.
Last(P) == CHOOSE y \in P : \A z \in P : z <= y
First(P) == CHOOSE y \in P : \A z \in P : y <= z

\* The mean spacing of adjacent positions of P, (last - first) / (n - 1),
\* is within percent % of the spacing t.
MeanSpacingWithin(P, t, percent) ==
    /\ Cardinality(P) >= 2
    /\ Abs((Last(P) - First(P)) - (Cardinality(P) - 1) * t) * 100
          < percent * (Cardinality(P) - 1) * t

C24_ExtremaOfOwnSequence ==
    (Compared /\ Returned)
    => /\ <<ret.peaks, ret.minima>> \in find_peaks_and_minima(ret.experimental.arr)
       /\ <<ret.theoretical_peaks, ret.theoretical_minima>>
             \in find_peaks_and_minima(ret.theoretical.arr)

\* A comparison made with another simulator and another screen width than the
\* defaults, whose experimental data has a peak where the theoretical
\* pattern has none.
C24_Witness ==
    /\ Compared /\ Returned
    /\ ret.setup # DefaultSetup
    /\ ret.screen_width # DefaultScreenWidth
    /\ ret.peaks # <<>>
    /\ ret.theoretical_peaks # ret.peaks

\* The double-slit call of the energy-conservation test has returned: default
\* slits, a 2 cm screen, 1000 points.
PowerCall ==
    /\ Simulated
    /\ ret.setup = DefaultSetup
    /\ ret.screen_width = 2 * DefaultScreenWidth
    /\ ret.resolution = PowerResolution
    /\ ret.double_slit

\* np.sum of the samples lo..hi of x.
RECURSIVE RangeSum(_, _, _)
RangeSum(x, lo, hi) ==
    IF lo > hi THEN 0
    ELSE IF lo = hi THEN x[lo]
    ELSE RangeSum(x, lo, (lo + hi) \div 2) + RangeSum(x, (lo + hi) \div 2 + 1, hi)

\* np.sum(intensity) * dy with dy = y_pos[1] - y_pos[0], in millimetres.
TotalPower(y_pos, intensity) ==
    MulDiv(RangeSum(intensity, 1, Len(intensity)), y_pos[2] - y_pos[1], 1000)

\* The total power of the returned pattern, and of the single-slit pattern
\* the same simulator gives on the same grid.
DoublePower == TotalPower(ret.y_positions, ret.intensity)
SinglePower == TotalPower(ret.y_positions, FineFraunhofer(ret.setup, ret.y_positions, FALSE))

InterferenceFactorAt(i) ==
    Square(Cos(Phase(ret.setup.slit_separation,
                     Theta(ret.y_positions[i], ret.setup.screen_distance),
                     ret.setup.wavelength)))

\* What single_slit_intensity gives at position i of the last call's grid.
SingleValueAt(i) == SingleSlitAt(ret.setup, ret.y_positions[i])

\* C22: at every position the raw double_slit_intensity is the raw
\* single_slit_intensity there (same beta, same substitution) times
\* cos^2(delta), a factor in [0, 1]; so it never exceeds the single-slit value.
C22_DoubleIsSingleTimesFactor ==
    ret.op = "double_slit_intensity"
    => \A i \in 1..Len(ret.intensity) :
          /\ 0 <= InterferenceFactorAt(i) /\ InterferenceFactorAt(i) <= Scale
          /\ ret.intensity[i] = FMul(SingleValueAt(i), InterferenceFactorAt(i))
          /\ ret.intensity[i] <= SingleValueAt(i)

\* A double-slit call on a grid holding y = 0, where beta is substituted, and
\* a position where the factor is strictly between 0 and 1.
C22_Witness ==
    /\ ret.op = "double_slit_intensity"
    /\ \E i, j \in 1..Len(ret.intensity) :
          /\ ret.y_positions[i] = 0 /\ ret.intensity[i] = Scale
          /\ 0 < InterferenceFactorAt(j) /\ InterferenceFactorAt(j) < Scale
          /\ 0 < ret.intensity[j] /\ ret.intensity[j] < SingleValueAt(j)

\* The divisor beta_safe of the sinc term at position i of the last call's grid.
DivisorAt(i) == BetaSafe(BetaAt(ret.y_positions[i]))

\* The returned value at position i is the sinc^2 term formed with that
\* divisor (times the interference factor, for the double slit).
FormedWithDivisor(i) ==
    ret.intensity[i] =
       IF ret.op = "single_slit_intensity" THEN SincSquared(DivisorAt(i))
       ELSE FMul(SincSquared(DivisorAt(i)), InterferenceFactorAt(i))

\* C23: in single_slit_intensity and double_slit_intensity the divisor of the
\* sinc term is never zero: where |beta| < 1e-10 (y = 0 and tiny beta of
\* either sign) it is exactly 1e-10, elsewhere it is beta unchanged, so its
\* magnitude is at least 1e-10.
C23_DivisorNeverZero ==
    DirectIntensity
    => \A i \in 1..Len(ret.y_positions) :
          /\ FormedWithDivisor(i)
          /\ DivisorAt(i) # 0 /\ DivisorAt(i) # NaN
          /\ Abs(BetaAt(ret.y_positions[i])) < BetaEps => DivisorAt(i) = BetaEps
          /\ Abs(BetaAt(ret.y_positions[i])) >= BetaEps
                => DivisorAt(i) = BetaAt(ret.y_positions[i])
          /\ Abs(DivisorAt(i)) >= BetaEps

\* A call on a grid with y = 0 and with a position whose beta is negative and
\* smaller than 1e-10 in magnitude: the divisor is 1e-10 at both.
C23_Witness ==
    /\ DirectIntensity
    /\ \E i, j \in 1..Len(ret.y_positions) :
          /\ ret.y_positions[i] = 0 /\ BetaAt(0) = 0
          /\ BetaAt(ret.y_positions[j]) < 0 /\ BetaAt(ret.y_positions[j]) > -BetaEps
          /\ DivisorAt(i) = BetaEps /\ DivisorAt(j) = BetaEps

\* Sample p of x is an interior sample with no lower neighbour.
IsLocalMinimum(x, p) ==
    /\ 1 < p /\ p < Len(x)
    /\ x[p] <= x[p - 1] /\ x[p] <= x[p + 1]

\* C25: every index returned as a minimum is a local minimum of the
\* intensity with a value of at most 0.9, the fixed height -0.9 of the search
\* on the negated signal, whatever the range of the signal.
C25_MinimaAtMostThreshold ==
    Found
    => \A k \in DOMAIN ret.minima :
          /\ IsLocalMinimum(ret.intensity, ret.minima[k])
          /\ ret.intensity[ret.minima[k]] <= -MinimaHeight

\* A signal that stays within [0.9, 1.0]: its dip to exactly 0.9 is returned
\* and its dip to 0.95 is not.
C25_Witness ==
    /\ Found
    /\ \A i \in DOMAIN ret.intensity : ret.intensity[i] >= -MinimaHeight
    /\ \E k \in DOMAIN ret.minima : ret.intensity[ret.minima[k]] = -MinimaHeight
    /\ \E q \in DOMAIN ret.intensity :
          /\ IsLocalMinimum(ret.intensity, q)
          /\ ret.intensity[q] = 950
          /\ \A k \in DOMAIN ret.minima : ret.minima[k] # q

\* C26: right after compare_with_theory has returned, theoretical_data holds
\* exactly the theoretical pattern the comparison used, and it is as long as
\* experimental_data.
C26_TheoryStoredAfterCompare ==
    (Compared /\ Returned)
    => /\ ~theoretical_data.none
       /\ theoretical_data = ret.theoretical
       /\ Len(theoretical_data.arr) = Len(experimental_data.arr)
       /\ ret.correlation = Corrcoef(experimental_data.arr, theoretical_data.arr)
       /\ ret.rms_error = RmsError(experimental_data.arr, theoretical_data.arr)

\* A comparison of a loaded line of the largest width, made with another
\* simulator than the default one, has returned.
C26_Witness ==
    /\ Compared /\ Returned
    /\ ret.setup # DefaultSetup
    /\ Len(theoretical_data.arr) = MaxPixels
    /\ theoretical_data.arr # experimental_data.arr

\* C27: experimental_data and theoretical_data both start as None, and
\* theoretical_data becomes non-None only in a compare_with_theory call that
\* got past its no-data check, experimental_data having been set before the
\* call.
C27_TheoryOnlyAfterData ==
    [][/\ ret.op = "init" => experimental_data = None /\ theoretical_data = None
       /\ (theoretical_data.none /\ ~theoretical_data'.none)
             => /\ Compared'
                /\ ret'.err # ErrNoData
                /\ ~experimental_data.none
                /\ ret'.experimental = experimental_data]_vars

\* A theoretical pattern is held while the last call is a load_image that
\* failed, after the comparison that stored it.
C27_Witness ==
    /\ ~theoretical_data.none
    /\ ~experimental_data.none
    /\ ret.op = "load_image"
    /\ ret.err = ErrFileNotFound

\* C28: a compare_with_theory call made while experimental_data is None or
\* empty raises and leaves experimental_data and theoretical_data as they
\* were, a pattern stored by an earlier comparison included.
C28_NoDataLeavesFields ==
    [][(Compared' /\ (experimental_data.none \/ experimental_data.arr = <<>>))
         => /\ ret'.err # NoError
            /\ experimental_data' = experimental_data
            /\ theoretical_data' = theoretical_data]_vars

\* A comparison has raised on an empty experimental_data while the pattern
\* of an earlier comparison is still held.
C28_Witness ==
    /\ Compared
    /\ ret.err # NoError
    /\ ~experimental_data.none /\ experimental_data.arr = <<>>
    /\ ~theoretical_data.none /\ theoretical_data.arr # <<>>

\* C29: a load_image call that cannot read the image raises
\* FileNotFoundError and leaves experimental_data and theoretical_data
\* unchanged; a load_image call replaces experimental_data only when it
\* succeeds; and a compare_with_theory call uses the sequence held when it is
\* made, so one loaded before a failed load is still the one compared.
C29_FailedLoadKeepsData ==
    [][/\ (ret'.op = "load_image" /\ ret'.err # NoError)
            => /\ ret'.err = ErrFileNotFound
               /\ experimental_data' = experimental_data
               /\ theoretical_data' = theoretical_data
       /\ (ret'.op = "load_image" /\ experimental_data' # experimental_data)
            => /\ ret'.err = NoError
               /\ experimental_data' = Some(ret'.intensity)
       /\ (Compared' /\ Returned')
            => ret'.experimental = experimental_data]_vars

\* A load has failed while a loaded line of the largest width is held and no
\* comparison has been made yet.
C29_Witness ==
    /\ ret.op = "load_image"
    /\ ret.err = ErrFileNotFound
    /\ ~experimental_data.none
    /\ Len(experimental_data.arr) = MaxPixels
    /\ theoretical_data.none

\* What simulate_experiment returns for the arguments of the last comparison
\* in this mode.
PatternOfComparison(double_slit) ==
    simulate_experiment(ret.setup, ret.screen_width, Len(ret.experimental.arr),
                        double_slit).intensity

\* C30: the theoretical sequence compare_with_theory uses is the one
\* simulate_experiment(screen_width, len(experimental_data), double_slit=True)
\* returns for the simulator of the call, whatever the simulator and the
\* screen width.
C30_ComparesWithDoubleSlit ==
    (Compared /\ Returned)
    => /\ ret.theoretical = Some(PatternOfComparison(TRUE))
       /\ theoretical_data = ret.theoretical

\* A comparison with another screen width than the default has returned, and
\* the single-slit pattern for its arguments is a different one.
C30_Witness ==
    /\ Compared /\ Returned
    /\ ret.screen_width # DefaultScreenWidth
    /\ ret.theoretical.arr # PatternOfComparison(FALSE)

====
